---- MODULE Spec2Model ----
(***************************************************************************)
(* GtkSymbolCheck.py: the GTK symbol version database (GtkSymbolListing),  *)
(* the version comparison (GtkSymbol.check_version) and the command-line   *)
(* driver, as a state machine.                                             *)
(***************************************************************************)
EXTENDS Integers, Sequences, FiniteSets, TLC

VARIABLES
    pc,                 \* position of the driver: start, fetch, loaded, check, raised
    gtk_major_version,  \* module global, line 9 / 338-339
    gtk_minor_version,  \* module global, line 10 / 338-340
    hide_not_found,     \* module global, line 11 / 343
    files,              \* documents present under source_dir/developer.gnome.org/gtk3
    rounds,             \* calls of get_api_documents made by __init__
    requested,          \* files handed to urlretrieve by the last get_api_documents
    failed,             \* some get_api_documents call returned False
    available,          \* result of get_available_symbols
    deprecated,         \* result of get_deprecated_symbols
    symbols,            \* GtkSymbolListing.symbols: name -> GtkSymbol
    out                 \* outcome of the last check_available_symbol call

vars == <<pc, gtk_major_version, gtk_minor_version, hide_not_found, files, rounds,
          requested, failed, available, deprecated, symbols, out>>

-----------------------------------------------------------------------------
(* Program constants *)

SeriesMajor == 3
FirstMinor == 0
LastMinor == 12
MinorStep == 2
DefaultGtkMajor == 3
DefaultGtkMinor == 12

(* Bounds of the model *)

MaxEntries == 2        \* names over all available and deprecated listings
MaxRepeats == 3        \* occurrences of one name over all listings, when it is the only one
MaxMajor == 4          \* largest major version queried
MaxRangeStep == 2      \* ranges of the pure-function check use minors 0, 2, .., 2*MaxRangeStep
MaxMissing == 2        \* documents missing from an almost complete cache
MaxCached == 1         \* documents present in an almost empty cache

Names == {"gtk_a", "GtkB"}

FILENAMES == <<"api-index-full.html", "api-index-deprecated.html", "gtkobjects.html">>

SeriesMinors == {m \in FirstMinor..LastMinor : (m - FirstMinor) % MinorStep = 0}

\* "%i.%i" % (version_major, version_minor)
version_key(major, minor) == ToString(major) \o "." \o ToString(minor)

VersionKeys == {version_key(SeriesMajor, m) : m \in SeriesMinors}

AllFiles == {<<version_key(SeriesMajor, m), FILENAMES[i]>> : m \in SeriesMinors, i \in 1..Len(FILENAMES)}

-----------------------------------------------------------------------------
(* GtkSymbol *)

GtkSymbol(name, min_version, max_version) ==
    [symbol_name |-> name,
     minimum_gtk_version |-> min_version,
     maximum_gtk_version |-> max_version]

\* check_version with the maximum compared as a pair.
check_version_lexicographic(self, major_version, minor_version) ==
    IF \/ self.minimum_gtk_version[1] > major_version
       \/ /\ self.minimum_gtk_version[1] = major_version
          /\ self.minimum_gtk_version[2] > minor_version
    THEN -1
    ELSE IF \/ self.maximum_gtk_version[1] < major_version
            \/ /\ self.maximum_gtk_version[1] = major_version
               /\ self.maximum_gtk_version[2] < minor_version
         THEN 1
         ELSE 0

\* check_version with the maximum's minor compared by <= : deprecated from the
\* maximum version on.
check_version_inclusive(self, major_version, minor_version) ==
    IF \/ self.minimum_gtk_version[1] > major_version
       \/ /\ self.minimum_gtk_version[1] = major_version
          /\ self.minimum_gtk_version[2] > minor_version
    THEN -1
    ELSE IF \/ self.maximum_gtk_version[1] < major_version
            \/ self.maximum_gtk_version[2] <= minor_version
         THEN 1
         ELSE 0

\* check_version with the maximum's minor left out of the comparison.
check_version_major_only(self, major_version, minor_version) ==
    IF \/ self.minimum_gtk_version[1] > major_version
       \/ /\ self.minimum_gtk_version[1] = major_version
          /\ self.minimum_gtk_version[2] > minor_version
    THEN -1
    ELSE IF self.maximum_gtk_version[1] < major_version
         THEN 1
         ELSE 0

check_version(self, major_version, minor_version) ==
    IF \/ self.minimum_gtk_version[1] > major_version
       \/ /\ self.minimum_gtk_version[1] = major_version
          /\ self.minimum_gtk_version[2] > minor_version
    THEN -1
    ELSE IF \/ self.maximum_gtk_version[1] < major_version
            \/ self.maximum_gtk_version[2] < minor_version
         THEN 1
         ELSE 0

-----------------------------------------------------------------------------
(* GtkSymbolListing: the documents *)

Exists(fs, major, minor, filename) == <<version_key(major, minor), filename>> \in fs

RECURSIVE check_api_versions_from(_, _)
check_api_versions_from(fs, version_minor) ==
    IF version_minor <= LastMinor
    THEN IF \E i \in 1..Len(FILENAMES) : ~Exists(fs, SeriesMajor, version_minor, FILENAMES[i])
         THEN <<SeriesMajor, version_minor>>
         ELSE check_api_versions_from(fs, version_minor + MinorStep)
    ELSE <<SeriesMajor, version_minor>>

check_api_versions(fs) == check_api_versions_from(fs, FirstMinor)

\* The documents of one version that get_api_documents finds absent, in its order.
Missing(fs, major, minor) ==
    SelectSeq(FILENAMES, LAMBDA f : ~Exists(fs, major, minor, f))

Keyed(major, minor, fnames) ==
    {<<version_key(major, minor), fnames[i]>> : i \in 1..Len(fnames)}


\* get_api_documents without the os.path.exists test: every document of the
\* version is downloaded.
get_api_documents_all(fs, version_major, version_minor, failing, partial) ==
    LET done == IF failing = 0 THEN FILENAMES ELSE SubSeq(FILENAMES, 1, failing - 1)
        tried == IF failing = 0 THEN FILENAMES ELSE SubSeq(FILENAMES, 1, failing)
        left == IF failing # 0 /\ partial
                THEN {<<version_key(version_major, version_minor), FILENAMES[failing]>>}
                ELSE {}
    IN  [ok |-> failing = 0,
         files |-> fs \cup Keyed(version_major, version_minor, done) \cup left,
         requested |-> [i \in 1..Len(tried) |->
                          <<version_key(version_major, version_minor), tried[i]>>]]

\* One call of get_api_documents (lines 84-106) on the cache fs. The downloads are
\* the environment's: failing = 0 when every urlretrieve returns, otherwise the
\* index, among the absent documents, of the one that raises; partial says whether
\* the raising urlretrieve had already created its file.
get_api_documents(fs, version_major, version_minor, failing, partial) ==
    LET missing == Missing(fs, version_major, version_minor)
        done == IF failing = 0 THEN missing ELSE SubSeq(missing, 1, failing - 1)
        tried == IF failing = 0 THEN missing ELSE SubSeq(missing, 1, failing)
        left == IF failing # 0 /\ partial
                THEN {<<version_key(version_major, version_minor), missing[failing]>>}
                ELSE {}
    IN  [ok |-> failing = 0,
         files |-> fs \cup Keyed(version_major, version_minor, done) \cup left,
         requested |-> [i \in 1..Len(tried) |->
                          <<version_key(version_major, version_minor), tried[i]>>]]

-----------------------------------------------------------------------------
(* GtkSymbolListing: the listings read from the documents *)

EmptyListing == [k \in VersionKeys |-> <<>>]

\* The symbol_dict whose listings hold the entries es, a sequence of <<key, name>>.
DictOf(es) ==
    [k \in VersionKeys |->
        LET sel == SelectSeq(es, LAMBDA e : e[1] = k)
        IN  [i \in 1..Len(sel) |-> sel[i][2]]]

\* The symbol_dicts that list n names, taken from the set names, over all versions
\* of the series.
ListingsOfLen(n, names) == {DictOf(es) : es \in [1..n -> VersionKeys \X names]}

\* The pairs of an available and a deprecated symbol_dict that list at most n names
\* in all.
ListingPairs(n, names) ==
    UNION {ListingsOfLen(k[1], names) \X ListingsOfLen(k[2], names) :
             k \in {m \in (0..n) \X (0..n) : m[1] + m[2] <= n}}

\* What get_available_symbols and get_deprecated_symbols can return together: at
\* most MaxEntries names in all, or at most MaxRepeats times the same name.
Listings == ListingPairs(MaxEntries, Names) \cup ListingPairs(MaxRepeats, {"gtk_a"})

NoSymbols == [x \in {} |-> x]

-----------------------------------------------------------------------------
(* GtkSymbolListing.get_symbols *)

\* introduce without the "not in symbols" test: a later listing replaces the record.
RECURSIVE introduce_overwrite(_, _, _, _, _)
introduce_overwrite(syms, lst, i, version_major, version_minor) ==
    IF i > Len(lst) THEN syms
    ELSE introduce_overwrite(
            (lst[i] :> GtkSymbol(lst[i], <<version_major, version_minor>>,
                                 <<SeriesMajor, LastMinor>>)) @@ syms,
            lst, i + 1, version_major, version_minor)

\* lines 181-185: the available names of one version
RECURSIVE introduce(_, _, _, _, _)
introduce(syms, lst, i, version_major, version_minor) ==
    IF i > Len(lst) THEN syms
    ELSE introduce(
            IF lst[i] \in DOMAIN syms
            THEN syms
            ELSE syms @@ (lst[i] :> GtkSymbol(lst[i], <<version_major, version_minor>>,
                                              <<SeriesMajor, LastMinor>>)),
            lst, i + 1, version_major, version_minor)

\* lines 177-186: oldest to newest
RECURSIVE introduction_pass(_, _, _)
introduction_pass(syms, avail, version_minor) ==
    IF version_minor <= LastMinor
    THEN introduction_pass(
            introduce(syms, avail[version_key(SeriesMajor, version_minor)], 1,
                      SeriesMajor, version_minor),
            avail, version_minor + MinorStep)
    ELSE syms

\* deprecate without its else branch: a name with no record gets none.
RECURSIVE deprecate_known_only(_, _, _, _, _, _)
deprecate_known_only(syms, lst, i, version_major, version_minor, gmajor) ==
    IF i > Len(lst) THEN syms
    ELSE deprecate_known_only(
            IF lst[i] \in DOMAIN syms
            THEN [syms EXCEPT ![lst[i]].maximum_gtk_version = <<version_major, version_minor>>]
            ELSE syms,
            lst, i + 1, version_major, version_minor, gmajor)

\* lines 192-199: the deprecated names of one version; gmajor is the global
\* gtk_major_version
RECURSIVE deprecate(_, _, _, _, _, _)
deprecate(syms, lst, i, version_major, version_minor, gmajor) ==
    IF i > Len(lst) THEN syms
    ELSE deprecate(
            IF lst[i] \in DOMAIN syms
            THEN [syms EXCEPT ![lst[i]].maximum_gtk_version = <<version_major, version_minor>>]
            ELSE syms @@ (lst[i] :> GtkSymbol(lst[i], <<gmajor, 0>>,
                                              <<version_major, version_minor>>)),
            lst, i + 1, version_major, version_minor, gmajor)

\* lines 188-200: newest to oldest
RECURSIVE deprecation_pass(_, _, _, _)
deprecation_pass(syms, depr, version_minor, gmajor) ==
    IF version_minor <= LastMinor /\ version_minor >= 0
    THEN deprecation_pass(
            deprecate(syms, depr[version_key(SeriesMajor, version_minor)], 1,
                      SeriesMajor, version_minor, gmajor),
            depr, version_minor - MinorStep, gmajor)
    ELSE syms

get_symbols(avail, depr, gmajor) ==
    deprecation_pass(introduction_pass(NoSymbols, avail, FirstMinor), depr, LastMinor, gmajor)

-----------------------------------------------------------------------------
(* GtkSymbolListing.check_available_symbol *)

NoLine == [kind |-> "", symbol |-> "", version |-> <<>>]

NoOut == [symbol |-> "", found |-> FALSE, result |-> 0, ret |-> FALSE, line |-> NoLine]

\* check_available_symbol with the two result tests exchanged.
check_available_symbol_swapped(syms, symbol_name, major_version, minor_version, hide) ==
    IF symbol_name \in DOMAIN syms
    THEN LET symbol == syms[symbol_name]
             result == check_version(symbol, major_version, minor_version)
         IN  IF result = 1
             THEN [symbol |-> symbol_name, found |-> TRUE, result |-> result, ret |-> FALSE,
                   line |-> [kind |-> "introduced", symbol |-> symbol_name,
                             version |-> symbol.minimum_gtk_version]]
             ELSE IF result = -1
             THEN [symbol |-> symbol_name, found |-> TRUE, result |-> result, ret |-> FALSE,
                   line |-> [kind |-> "deprecated", symbol |-> symbol_name,
                             version |-> symbol.maximum_gtk_version]]
             ELSE [symbol |-> symbol_name, found |-> TRUE, result |-> result, ret |-> TRUE,
                   line |-> NoLine]
    ELSE [symbol |-> symbol_name, found |-> FALSE, result |-> 0, ret |-> FALSE,
          line |-> IF hide THEN NoLine
                   ELSE [kind |-> "not_found", symbol |-> symbol_name, version |-> <<>>]]

check_available_symbol(syms, symbol_name, major_version, minor_version, hide) ==
    IF symbol_name \in DOMAIN syms
    THEN LET symbol == syms[symbol_name]
             result == check_version(symbol, major_version, minor_version)
         IN  IF result = -1
             THEN [symbol |-> symbol_name, found |-> TRUE, result |-> result, ret |-> FALSE,
                   line |-> [kind |-> "introduced", symbol |-> symbol_name,
                             version |-> symbol.minimum_gtk_version]]
             ELSE IF result = 1
             THEN [symbol |-> symbol_name, found |-> TRUE, result |-> result, ret |-> FALSE,
                   line |-> [kind |-> "deprecated", symbol |-> symbol_name,
                             version |-> symbol.maximum_gtk_version]]
             ELSE [symbol |-> symbol_name, found |-> TRUE, result |-> result, ret |-> TRUE,
                   line |-> NoLine]
    ELSE \* KeyError, caught by the except clause
         [symbol |-> symbol_name, found |-> FALSE, result |-> 0, ret |-> FALSE,
          line |-> IF hide THEN NoLine
                   ELSE [kind |-> "not_found", symbol |-> symbol_name, version |-> <<>>]]


-----------------------------------------------------------------------------
(* The driver, lines 333-349 *)

\* --gtk_version values given on the command line, after split('.') and int()
GtkVersionArgs ==
    {<<SeriesMajor, m>> : m \in SeriesMinors}
        \cup {<<MaxMajor, 0>>, <<SeriesMajor - 1, LastMinor>>}

RECURSIVE SubsetsUpTo(_, _)
SubsetsUpTo(S, n) ==
    IF n = 0 THEN {{}}
    ELSE LET smaller == SubsetsUpTo(S, n - 1)
         IN  smaller \cup {T \cup {x} : T \in smaller, x \in S}

\* Caches left by earlier runs: complete, or lacking the newest object index.
RecentCaches == {AllFiles, AllFiles \ {<<version_key(SeriesMajor, LastMinor), FILENAMES[3]>>}}

\* Caches with a few documents missing, or with only a few present.
SparseCaches ==
    {AllFiles \ M : M \in SubsetsUpTo(AllFiles, MaxMissing)} \cup SubsetsUpTo(AllFiles, MaxCached)

InitWith(caches) ==
    /\ pc = "start"
    /\ gtk_major_version = DefaultGtkMajor
    /\ gtk_minor_version = DefaultGtkMinor
    /\ hide_not_found = FALSE
    /\ files \in caches
    /\ rounds = 0
    /\ requested = <<>>
    /\ failed = FALSE
    /\ available = EmptyListing
    /\ deprecated = EmptyListing
    /\ symbols = NoSymbols
    /\ out = NoOut

Init == InitWith(RecentCaches)

\* lines 334-343: the arguments set the globals
Main ==
    /\ pc = "start"
    /\ \/ UNCHANGED <<gtk_major_version, gtk_minor_version>>
       \/ \E v \in GtkVersionArgs :
            /\ gtk_major_version' = v[1]
            /\ gtk_minor_version' = v[2]
    /\ hide_not_found' \in BOOLEAN
    /\ pc' = "fetch"
    /\ UNCHANGED <<files, rounds, requested, failed, available, deprecated, symbols, out>>

\* lines 58-61: nothing is missing, the loop ends
FetchDone ==
    /\ pc = "fetch"
    /\ check_api_versions(files)[2] > LastMinor
    /\ pc' = "loaded"
    /\ UNCHANGED <<gtk_major_version, gtk_minor_version, hide_not_found, files, rounds,
                   requested, failed, available, deprecated, symbols, out>>

\* lines 58-63: a round whose downloads all return
FetchRoundOk ==
    /\ pc = "fetch"
    /\ LET v == check_api_versions(files)
       IN  /\ v[2] <= LastMinor
           /\ LET r == get_api_documents(files, v[1], v[2], 0, FALSE)
              IN  /\ files' = r.files
                  /\ requested' = r.requested
    /\ rounds' = rounds + 1
    /\ UNCHANGED <<pc, gtk_major_version, gtk_minor_version, hide_not_found, failed,
                   available, deprecated, symbols, out>>

\* lines 58-64: a round in which a download raises, which ends the loop
FetchRoundFail ==
    /\ pc = "fetch"
    /\ LET v == check_api_versions(files)
       IN  /\ v[2] <= LastMinor
           /\ \E failing \in 1..Len(Missing(files, v[1], v[2])), partial \in BOOLEAN :
                LET r == get_api_documents(files, v[1], v[2], failing, partial)
                IN  /\ files' = r.files
                    /\ requested' = r.requested
    /\ rounds' = rounds + 1
    /\ failed' = TRUE
    /\ pc' = "loaded"
    /\ UNCHANGED <<gtk_major_version, gtk_minor_version, hide_not_found,
                   available, deprecated, symbols, out>>

\* line 65 with every document on disk: the listings are read and merged
GetSymbols ==
    /\ pc = "loaded"
    /\ files = AllFiles
    /\ \E listing \in Listings :
            /\ available' = listing[1]
            /\ deprecated' = listing[2]
            /\ symbols' = get_symbols(listing[1], listing[2], gtk_major_version)
    /\ pc' = "check"
    /\ UNCHANGED <<gtk_major_version, gtk_minor_version, hide_not_found, files, rounds,
                   requested, failed, out>>

\* line 65 with a document absent: open() raises out of the constructor
GetSymbolsRaises ==
    /\ pc = "loaded"
    /\ files # AllFiles
    /\ pc' = "raised"
    /\ UNCHANGED <<gtk_major_version, gtk_minor_version, hide_not_found, files, rounds,
                   requested, failed, available, deprecated, symbols, out>>

\* lines 347-349: one symbol of the source tree is checked
CheckAvailableSymbol ==
    /\ pc = "check"
    /\ \E name \in Names :
            out' = check_available_symbol(symbols, name, gtk_major_version,
                                          gtk_minor_version, hide_not_found)
    /\ UNCHANGED <<pc, gtk_major_version, gtk_minor_version, hide_not_found, files, rounds,
                   requested, failed, available, deprecated, symbols>>

Next ==
    \/ Main
    \/ FetchDone
    \/ FetchRoundOk
    \/ FetchRoundFail
    \/ GetSymbols
    \/ GetSymbolsRaises
    \/ CheckAvailableSymbol

Spec == Init /\ [][Next]_vars

-----------------------------------------------------------------------------
(* The constructor's fetch loop alone, from sparse caches *)

InitFetch == InitWith(SparseCaches)

NextFetch ==
    \/ Main
    \/ FetchDone
    \/ FetchRoundOk
    \/ FetchRoundFail

\* The interpreter keeps running the loop until it ends.
SpecFetch == InitFetch /\ [][NextFetch]_vars /\ WF_vars(NextFetch)

-----------------------------------------------------------------------------
(* GtkSymbol.check_version on arbitrary ranges and queries *)

RangeVersions == {<<major, MinorStep * i>> : major \in (SeriesMajor - 1)..MaxMajor, i \in 0..MaxRangeStep}

InitCheckVersion ==
    /\ pc = "check"
    /\ \E q \in RangeVersions :
            /\ gtk_major_version = q[1]
            /\ gtk_minor_version = q[2]
    /\ hide_not_found \in BOOLEAN
    /\ files = AllFiles
    /\ rounds = 0
    /\ requested = <<>>
    /\ failed = FALSE
    /\ available = EmptyListing
    /\ deprecated = EmptyListing
    /\ \E min_version \in RangeVersions, max_version \in RangeVersions :
            symbols = ("gtk_a" :> GtkSymbol("gtk_a", min_version, max_version))
    /\ out = NoOut

SpecCheckVersion == InitCheckVersion /\ [][CheckAvailableSymbol]_vars


-----------------------------------------------------------------------------
(* Vocabulary of the properties *)

LexLess(a, b) == a[1] < b[1] \/ (a[1] = b[1] /\ a[2] < b[2])

LexLeq(a, b) == a = b \/ LexLess(a, b)

Target == <<gtk_major_version, gtk_minor_version>>

Built == pc = "check"

Checked == pc = "check" /\ out.symbol # ""

KeyOfMinor == [m \in SeriesMinors |-> version_key(SeriesMajor, m)]

Occurs(name, lst) == \E i \in 1..Len(lst) : lst[i] = name

\* The minors of the versions whose available / deprecated listing names the symbol.
AvailableAt(name) == {m \in SeriesMinors : Occurs(name, available[KeyOfMinor[m]])}

DeprecatedAt(name) == {m \in SeriesMinors : Occurs(name, deprecated[KeyOfMinor[m]])}

Listed == {name \in Names : AvailableAt(name) # {} \/ DeprecatedAt(name) # {}}

Least(S) == CHOOSE m \in S : \A n \in S : m <= n

Earliest(fs) == check_api_versions(fs)

-----------------------------------------------------------------------------
(* Properties *)

\* C1: check_version returns -1 exactly when the queried version is below
\* min_version in lexicographic order; otherwise 1 exactly when the queried major
\* exceeds the maximum's major or the queried minor exceeds the maximum's minor,
\* each compared on its own; otherwise 0. The too-new test comes first.
C1_CheckVersionContract ==
    (Checked /\ out.found) =>
        LET r == symbols[out.symbol]
        IN  out.result =
                IF LexLess(Target, r.minimum_gtk_version) THEN -1
                ELSE IF \/ Target[1] > r.maximum_gtk_version[1]
                        \/ Target[2] > r.maximum_gtk_version[2]
                     THEN 1
                     ELSE 0

\* C1 witness: a query below the minimum whose minor also exceeds the maximum's
\* minor has been answered too-new.
C1_Witness ==
    /\ Checked /\ out.found
    /\ LexLess(Target, symbols[out.symbol].minimum_gtk_version)
    /\ Target[2] > symbols[out.symbol].maximum_gtk_version[2]
    /\ out.result = -1

\* C2 as stated: a symbol checked at a target equal to its max_version V, with
\* min_version at or below V, is classified Deprecated (result 1, returns False).
C2_DeprecatedAtMax ==
    (Checked /\ out.found
        /\ Target = symbols[out.symbol].maximum_gtk_version
        /\ LexLeq(symbols[out.symbol].minimum_gtk_version, symbols[out.symbol].maximum_gtk_version))
    => (out.result = 1 /\ out.ret = FALSE)

\* C2 amended: a symbol checked at a target equal to its max_version V, with
\* min_version at or below V, is classified Valid (result 0, returns True, no line
\* printed): it is deprecated only after its max_version.
C2_ValidAtMax ==
    (Checked /\ out.found
        /\ Target = symbols[out.symbol].maximum_gtk_version
        /\ LexLeq(symbols[out.symbol].minimum_gtk_version, symbols[out.symbol].maximum_gtk_version))
    => (out.result = 0 /\ out.ret = TRUE /\ out.line = NoLine)

\* C2 witness: a symbol listed deprecated in the target version itself, and in no
\* older one, has been checked.
C2_Witness ==
    /\ Checked /\ out.found
    /\ DeprecatedAt(out.symbol) # {}
    /\ Target = <<SeriesMajor, Least(DeprecatedAt(out.symbol))>>
    /\ Target = symbols[out.symbol].maximum_gtk_version
    /\ LexLeq(symbols[out.symbol].minimum_gtk_version, Target)
    /\ out.ret = TRUE

\* C3: whatever target version the command line sets, a symbol named by the
\* deprecated listing of V, by no older deprecated listing and by no available
\* listing has the record min_version = (3, 0), max_version = V.
C3_DeprecatedOnlyRecord ==
    Built =>
        \A name \in Names :
            (AvailableAt(name) = {} /\ DeprecatedAt(name) # {}) =>
                /\ name \in DOMAIN symbols
                /\ symbols[name].minimum_gtk_version = <<SeriesMajor, FirstMinor>>
                /\ symbols[name].maximum_gtk_version = <<SeriesMajor, Least(DeprecatedAt(name))>>

\* C4: once get_symbols has finished, every record has min_version <= max_version
\* in the (major, minor) order, whatever the listings.
C4_RangeOrdered ==
    Built =>
        \A name \in DOMAIN symbols :
            LexLeq(symbols[name].minimum_gtk_version, symbols[name].maximum_gtk_version)

\* C5: when a download fails during construction, construction still completes
\* without raising.
C5_FetchFailureTolerated == failed => pc # "raised"

\* C6: a symbol named by some available listing has min_version = the earliest
\* version whose available listing names it, and max_version = the oldest version
\* whose deprecated listing names it, or (3, 12) when none does.
C6_RecordOfAvailableSymbol ==
    Built =>
        \A name \in Names :
            AvailableAt(name) # {} =>
                /\ name \in DOMAIN symbols
                /\ symbols[name].minimum_gtk_version = <<SeriesMajor, Least(AvailableAt(name))>>
                /\ symbols[name].maximum_gtk_version =
                        IF DeprecatedAt(name) = {}
                        THEN <<SeriesMajor, LastMinor>>
                        ELSE <<SeriesMajor, Least(DeprecatedAt(name))>>

\* C6 witness: a symbol named by two available listings and by a deprecated one
\* has its record.
C6_Witness ==
    /\ Built
    /\ \E name \in Names :
            /\ Cardinality(AvailableAt(name)) >= 2
            /\ DeprecatedAt(name) # {}
            /\ Least(DeprecatedAt(name)) > Least(AvailableAt(name))

\* C7: a symbol whose earliest available listing is V2, V2 not the first version of
\* the series, is classified too-new (returns False, reports V2) at every target
\* below V2 and valid (returns True) at every target from V2 to its max_version.
C7_IntroducedSymbol ==
    (Checked /\ AvailableAt(out.symbol) # {} /\ Least(AvailableAt(out.symbol)) > FirstMinor) =>
        LET V2 == <<SeriesMajor, Least(AvailableAt(out.symbol))>>
            max == symbols[out.symbol].maximum_gtk_version
        IN  /\ LexLess(Target, V2) =>
                    /\ out.result = -1 /\ out.ret = FALSE
                    /\ out.line = [kind |-> "introduced", symbol |-> out.symbol, version |-> V2]
            /\ (LexLeq(V2, Target) /\ LexLeq(Target, max)) =>
                    (out.result = 0 /\ out.ret = TRUE /\ out.line = NoLine)

\* C7 witness: a symbol first available after 3.0 has been checked at an older
\* target of the series and reported too-new.
C7_Witness ==
    /\ Checked /\ AvailableAt(out.symbol) # {}
    /\ Least(AvailableAt(out.symbol)) > FirstMinor
    /\ gtk_major_version = SeriesMajor
    /\ gtk_minor_version < Least(AvailableAt(out.symbol))
    /\ out.line.kind = "introduced"

\* C8: the database holds one record for each name of any available or deprecated
\* listing and none for another name; a check of a name no listing holds returns
\* False without raising and prints the not-found line unless hide_not_found is
\* set, at every target; a check of a listed name is never answered not-found.
C8_RecordsAndUnknown ==
    /\ Built =>
        /\ DOMAIN symbols = Listed
        /\ \A name \in DOMAIN symbols : symbols[name].symbol_name = name
    /\ Checked =>
        /\ out.found <=> out.symbol \in Listed
        /\ out.line.kind = "not_found" => out.symbol \notin Listed
        /\ out.symbol \notin Listed =>
                /\ out.ret = FALSE
                /\ out.line = IF hide_not_found THEN NoLine
                              ELSE [kind |-> "not_found", symbol |-> out.symbol, version |-> <<>>]

\* C8 witness: with another name in the database, a name no listing holds has been
\* checked at a target outside the series and reported not found.
C8_Witness ==
    /\ Checked
    /\ Listed # {}
    /\ out.symbol \notin Listed
    /\ gtk_major_version # SeriesMajor
    /\ out.line.kind = "not_found"

\* C9: the fetch loop of __init__ ends; it makes at most 7 rounds; a round either
\* ends the loop with a failed download or moves the earliest incomplete version
\* strictly up; only absent documents of the earliest incomplete version are
\* downloaded; after a failed download nothing more is downloaded.
C9_FetchLoop ==
    /\ <>(pc = "loaded")
    /\ [](rounds <= Cardinality(SeriesMinors))
    /\ [][rounds' # rounds =>
            /\ pc = "fetch" /\ rounds' = rounds + 1
            /\ \/ pc' = "loaded" /\ failed'
               \/ pc' = "fetch" /\ ~failed' /\ LexLess(Earliest(files), Earliest(files'))
            /\ Len(requested') >= 1
            /\ \A i \in 1..Len(requested') :
                    /\ requested'[i] \notin files
                    /\ requested'[i][1] = version_key(Earliest(files)[1], Earliest(files)[2])
            /\ files' \subseteq files \cup {requested'[i] : i \in 1..Len(requested')}]_vars
    /\ [][failed => (files' = files /\ requested' = requested /\ rounds' = rounds)]_vars

\* C9 witness: from an empty cache the loop has ended after 7 rounds.
C9_Witness == pc = "loaded" /\ rounds = Cardinality(SeriesMinors) /\ ~failed

\* C10: a query answered 0 lies in the range in lexicographic order; a record whose
\* min_version is above its max_version is answered 0 at no query; a query inside
\* the range in lexicographic order that is not answered 0 is answered 1, with its
\* minor above the maximum's minor and its major below the maximum's major.
C10_ValidWithinRange ==
    (Checked /\ out.found) =>
        LET r == symbols[out.symbol]
            inside == /\ LexLeq(r.minimum_gtk_version, Target)
                      /\ LexLeq(Target, r.maximum_gtk_version)
        IN  /\ out.result = 0 => inside
            /\ LexLess(r.maximum_gtk_version, r.minimum_gtk_version) => out.result # 0
            /\ (inside /\ out.result # 0) =>
                    /\ out.result = 1
                    /\ Target[2] > r.maximum_gtk_version[2]
                    /\ Target[1] < r.maximum_gtk_version[1]

\* C10 witness: a query inside the range in lexicographic order has been answered
\* deprecated.
C10_Witness ==
    /\ Checked /\ out.found
    /\ LexLeq(symbols[out.symbol].minimum_gtk_version, Target)
    /\ LexLeq(Target, symbols[out.symbol].maximum_gtk_version)
    /\ out.result = 1

====
